---- MODULE Spec2Model ----
(***************************************************************************)
(* Session state machine of the mental-health chatbot (src/app.py).        *)
(*                                                                         *)
(* One Streamlit session: login -> topic selection -> chat, with the       *)
(* crisis-keyword gate and the free-quota / credit wallet.  Every action   *)
(* is one script run triggered by a button click, from the click to the    *)
(* st.rerun() (or return) that ends it, followed by the                    *)
(* initialize_session_state() of the next run.                             *)
(*                                                                         *)
(* Strings are sequences of one-character strings, so that strip(),        *)
(* lower() and the substring test `k in text` are computed as Python       *)
(* computes them.  The long literal texts of the program (system prompt,   *)
(* fallback lines, topic templates) and the text produced by the remote    *)
(* model are single-token sequences: only their identity matters.          *)
(***************************************************************************)
EXTENDS Integers, Sequences, FiniteSets, TLC

VARIABLES
    logged_in,            \* st.session_state.logged_in
    username,             \* st.session_state.username
    topic,                \* st.session_state.topic (None or a topic name)
    conversation,         \* st.session_state.conversation
    wallet_credits,       \* st.session_state.wallet_credits
    chats_used,           \* st.session_state.chats_used
    crisis_mode,          \* st.session_state.crisis_mode
    topic_welcome_shown,  \* st.session_state.topic_welcome_shown
    api_key,              \* whether get_openrouter_api_key() finds a key
    api_request,          \* messages POSTed by the last run (NoRequest if none)
    notice,               \* st.error / st.warning / st.success of the last run
    topups,               \* add_credit() calls since the session was created
    event                 \* the click the last run handled: button and typed text

vars == <<logged_in, username, topic, conversation, wallet_credits, chats_used,
          crisis_mode, topic_welcome_shown, api_key, api_request, notice, topups,
          event>>

session == <<logged_in, username, topic, conversation, wallet_credits,
             chats_used, crisis_mode, topic_welcome_shown, topups>>

----------------------------------------------------------------------------
(* Program constants *)

FREE_CHAT_LIMIT == 5

CRISIS_KEYWORDS ==
    << <<"s","u","i","c","i","d","e">>,
       <<"k","i","l","l"," ","m","y","s","e","l","f">>,
       <<"e","n","d"," ","m","y"," ","l","i","f","e">>,
       <<"s","e","l","f"," ","h","a","r","m">>,
       <<"s","e","l","f","-","h","a","r","m">>,
       <<"h","a","r","m"," ","o","t","h","e","r","s">>,
       <<"h","u","r","t"," ","m","y","s","e","l","f">>,
       <<"a","b","u","s","e">>,
       <<"d","a","n","g","e","r">>,
       <<"d","i","e">>,
       <<"d","i","e"," ","b","y">>,
       <<"p","l","a","n"," ","t","o"," ","k","i","l","l">>,
       <<"p","l","a","n"," ","t","o"," ","h","a","r","m">>,
       <<"t","h","o","u","g","h","t","s"," ","o","f"," ","d","e","a","t","h">> >>

SYSTEM_PROMPT == <<"SYSTEM_PROMPT">>

Topics == <<"General", "Relationship", "Anxiety", "Stress", "Addiction">>

TopicSet == {Topics[i] : i \in 1..Len(Topics)}

TOPIC_PROMPT_TEMPLATES == [t \in TopicSet |-> <<"TEMPLATE", t>>]

StaticWelcome == <<"Welcome! How can I support you today?">>

NoKeyText == <<"Error: No API key.">>

ApiErrorText == <<"Sorry, something went wrong communicating with the chat service.">>

\* the content of choices[0].message.content of a well-formed response
ReplyText == <<"REPLY">>

None == "None"

\* no POST was made (a POST always carries at least one message)
NoRequest == <<>>

NoNotice == "none"

Click(button, text) == [button |-> button, text |-> text]

----------------------------------------------------------------------------
(* Bounds and inputs *)

MaxTopUps == 2

\* what the user may type in the Username box
UsernameInputs == { <<>>, <<" ">>, <<" ","a","l"," ">> }

\* what the user may type in the message box
MessageInputs ==
    { <<>>,
      <<" ", " ">>,
      <<"h","i"," ">>,
      <<" ","D","i","e","t">>,
      <<"s","e","l","f","-","H","A","R","M">> }

MaxTextLen == 3

\* the characters of the generated message texts
MatcherAlphabet == {"d", "i", "e", "D", "I", "E", " "}

\* longer message texts, with and without a crisis term
SampleTexts ==
    { <<"S","e","l","f","-","H","a","r","m">>,
      <<"s","e","l","f","h","a","r","m">>,
      <<"a","b","u","s","e","d">>,
      <<"A","B","U","S">>,
      <<"e","n","d"," ","m","y"," "," ","l","i","f","e">>,
      <<"i","n"," ","D","a","n","g","e","r","!">> }

\* every text over MatcherAlphabet of at most MaxTextLen characters, and the samples
MatcherTexts ==
    UNION {[1..n -> MatcherAlphabet] : n \in 0..MaxTextLen} \cup SampleTexts

\* what happens to the POST: a well-formed answer, or one of the exceptions
NetOutcomes == {"ok", "http_error", "timeout", "malformed"}

----------------------------------------------------------------------------
(* Strings *)

UpperChars == <<"A","B","C","D","E","F","G","H","I","J","K","L","M",
                "N","O","P","Q","R","S","T","U","V","W","X","Y","Z">>

LowerChars == <<"a","b","c","d","e","f","g","h","i","j","k","l","m",
                "n","o","p","q","r","s","t","u","v","w","x","y","z">>

Whitespace == {" ", "\t", "\n"}

LowerChar(c) ==
    IF \E i \in 1..Len(UpperChars) : UpperChars[i] = c
    THEN LowerChars[CHOOSE i \in 1..Len(UpperChars) : UpperChars[i] = c]
    ELSE c

\* str.lower()
Lower(text) == [i \in 1..Len(text) |-> LowerChar(text[i])]

\* str.strip()
Strip(text) ==
    LET keep == {i \in 1..Len(text) : text[i] \notin Whitespace}
    IN  IF keep = {} THEN <<>>
        ELSE LET first == CHOOSE i \in keep : \A j \in keep : i <= j
                 last  == CHOOSE i \in keep : \A j \in keep : j <= i
             IN  SubSeq(text, first, last)

\* the Python test `k in text`
Contains(text, k) ==
    \E i \in 0..(Len(text) - Len(k)) : SubSeq(text, i + 1, i + Len(k)) = k

\* variant: the text is searched as typed, without lower()
contains_crisis_keywords_cased(text) ==
    \E n \in 1..Len(CRISIS_KEYWORDS) : Contains(text, CRISIS_KEYWORDS[n])

contains_crisis_keywords(text) ==
    LET text_lower == Lower(text)
    IN  \E n \in 1..Len(CRISIS_KEYWORDS) : Contains(text_lower, CRISIS_KEYWORDS[n])

Max(a, b) == IF a >= b THEN a ELSE b

Message(role, content) == [role |-> role, content |-> content]

----------------------------------------------------------------------------
(* Chat client *)

\* variant: the except branch returns an empty reply instead of the fallback line
openrouter_chat_api_empty_on_error(messages, net) ==
    IF ~api_key
    THEN [content |-> NoKeyText, request |-> NoRequest, notice |-> "error: no api key"]
    ELSE IF net = "ok"
    THEN [content |-> ReplyText, request |-> messages, notice |-> NoNotice]
    ELSE [content |-> <<>>, request |-> messages, notice |-> "error: api"]

\* openrouter_chat_api(messages): what it returns, what it POSTs and what it
\* reports, when the POST (if one is made) ends as `net`.  It raises nothing:
\* every exception of the POST is caught and turned into ApiErrorText.
openrouter_chat_api(messages, net) ==
    IF ~api_key
    THEN [content |-> NoKeyText, request |-> NoRequest, notice |-> "error: no api key"]
    ELSE IF net = "ok"
    THEN [content |-> ReplyText, request |-> messages, notice |-> NoNotice]
    ELSE [content |-> ApiErrorText, request |-> messages, notice |-> "error: api"]

\* get_topic_welcome(topic); the except branch is taken only if
\* openrouter_chat_api raises, which it never does
get_topic_welcome(t, net) ==
    IF t \notin DOMAIN TOPIC_PROMPT_TEMPLATES
    THEN [content |-> StaticWelcome, request |-> NoRequest, notice |-> NoNotice]
    ELSE openrouter_chat_api(<<Message("system", SYSTEM_PROMPT),
                               Message("user", TOPIC_PROMPT_TEMPLATES[t])>>, net)

----------------------------------------------------------------------------
(* Session *)

\* initialize_session_state() on an empty st.session_state
FreshSession ==
    /\ logged_in = FALSE
    /\ username = <<>>
    /\ topic = None
    /\ conversation = <<>>
    /\ wallet_credits = FREE_CHAT_LIMIT
    /\ chats_used = 0
    /\ crisis_mode = FALSE
    /\ topic_welcome_shown = FALSE
    /\ topups = 0

Init ==
    /\ FreshSession
    /\ api_key \in BOOLEAN
    /\ api_request = NoRequest
    /\ notice = NoNotice
    /\ event = Click("none", <<>>)

\* variant: the ledger keys are missing from the list reset_session() deletes
reset_session_keeps_ledger ==
    /\ logged_in' = FALSE
    /\ username' = <<>>
    /\ topic' = None
    /\ conversation' = <<>>
    /\ crisis_mode' = FALSE
    /\ topic_welcome_shown' = FALSE
    /\ UNCHANGED <<wallet_credits, chats_used, topups>>

\* reset_session(), st.rerun(), and the initialize_session_state() of the rerun
reset_session ==
    /\ logged_in' = FALSE
    /\ username' = <<>>
    /\ topic' = None
    /\ conversation' = <<>>
    /\ wallet_credits' = FREE_CHAT_LIMIT
    /\ chats_used' = 0
    /\ crisis_mode' = FALSE
    /\ topic_welcome_shown' = FALSE
    /\ topups' = 0

\* the branches of main() and of chat_screen() that decide what is rendered
OnLoginScreen == ~logged_in

\* variant: the topic buttons are rendered on every logged-in run
OnTopicScreenAnyTopic == logged_in

OnTopicScreen == logged_in /\ topic = None

OnChatScreen == logged_in /\ topic # None

\* variant: the crisis branch of chat_screen() is missing
CrisisGateMissing == FALSE

\* chat_screen(): `if st.session_state.crisis_mode:`
CrisisGate == crisis_mode

\* variant: the no-credits branch tests the free quota instead of the wallet
ExhaustedGateOnQuota == chats_used >= FREE_CHAT_LIMIT

\* variant: the no-credits branch of chat_screen() is missing
ExhaustedGateMissing == FALSE

\* chat_screen(): `if st.session_state.wallet_credits <= 0:`
ExhaustedGate == wallet_credits <= 0

\* chat_screen(): the second eligibility test, after the message is appended
LimitReached == chats_used >= FREE_CHAT_LIMIT /\ wallet_credits <= 0

Screen ==
    IF OnLoginScreen THEN "LoggedOut"
    ELSE IF OnTopicScreen THEN "TopicSelection"
    ELSE IF CrisisGate THEN "CrisisMode"
    ELSE IF ExhaustedGate THEN "Exhausted"
    ELSE "Chatting"

----------------------------------------------------------------------------
(* Actions *)

\* login_screen(): the Login button
Login(u) ==
    /\ OnLoginScreen
    /\ IF Strip(u) # <<>>
       THEN /\ username' = Strip(u)
            /\ logged_in' = TRUE
            /\ notice' = NoNotice
       ELSE /\ notice' = "warning: invalid username"
            /\ UNCHANGED <<username, logged_in>>
    /\ api_request' = NoRequest
    /\ event' = Click("Login", u)
    /\ UNCHANGED <<topic, conversation, wallet_credits, chats_used, crisis_mode,
                   topic_welcome_shown, api_key, topups>>

\* variant: the welcome message is stored before the system prompt
TopicConversationWelcomeFirst(welcome_text) ==
    <<Message("assistant", welcome_text), Message("system", SYSTEM_PROMPT)>>

\* variant: the conversation is reset to the welcome message alone
TopicConversationNoSystem(welcome_text) ==
    <<Message("assistant", welcome_text)>>

\* the conversation a topic button installs
TopicConversation(welcome_text) ==
    <<Message("system", SYSTEM_PROMPT), Message("assistant", welcome_text)>>

\* topic_selection_screen(): one of the five topic buttons
SelectTopic(t, net) ==
    /\ OnTopicScreen
    /\ LET welcome == get_topic_welcome(t, net)
       IN  /\ topic' = t
           /\ conversation' = TopicConversation(welcome.content)
           /\ api_request' = welcome.request
           /\ notice' = welcome.notice
    /\ crisis_mode' = FALSE
    /\ topic_welcome_shown' = TRUE
    /\ event' = Click("Topic", <<t>>)
    /\ UNCHANGED <<logged_in, username, wallet_credits, chats_used, api_key, topups>>

\* variant: every answered message is debited, free or not
DebitCreditAlways(used, credits) == Max(0, credits - 1)

\* variant: the debit starts one chat early (>= instead of >)
DebitCreditAtLimit(used, credits) ==
    IF used >= FREE_CHAT_LIMIT THEN Max(0, credits - 1) ELSE credits

\* chat_screen(): the wallet update after an answered message
DebitCredit(used, credits) ==
    IF used > FREE_CHAT_LIMIT THEN Max(0, credits - 1) ELSE credits

\* variant: the keywords are looked up in the text as typed, not lower-cased
CrisisDetectedCaseSensitive(user_input) ==
    \E n \in 1..Len(CRISIS_KEYWORDS) : Contains(user_input, CRISIS_KEYWORDS[n])

\* chat_screen(): `if contains_crisis_keywords(user_input):`
CrisisDetected(user_input) == contains_crisis_keywords(user_input)

\* variant: the message is tested as typed, without strip()
HasMessageUnstripped(user_input) == user_input # <<>>

\* chat_screen(): the `user_input.strip()` test of the Send branch
HasMessage(user_input) == Strip(user_input) # <<>>

\* variant: only the messages after the system prompt are submitted
RequestMessagesNoSystem(conv) == Tail(conv)

\* chat_screen(): `messages = st.session_state.conversation`
RequestMessages(conv) == conv

\* chat_screen(): the Send button, with `user_input` in the message box
Send(user_input, net) ==
    /\ OnChatScreen
    /\ ~CrisisGate
    /\ ~ExhaustedGate
    /\ event' = Click("Send", user_input)
    /\ IF ~HasMessage(user_input)
       THEN /\ api_request' = NoRequest
            /\ notice' = NoNotice
            /\ UNCHANGED <<conversation, crisis_mode, chats_used, wallet_credits>>
       ELSE LET appended == Append(conversation, Message("user", Strip(user_input)))
            IN  IF CrisisDetected(user_input)
                THEN /\ conversation' = appended
                     /\ crisis_mode' = TRUE
                     /\ api_request' = NoRequest
                     /\ notice' = NoNotice
                     /\ UNCHANGED <<chats_used, wallet_credits>>
                ELSE IF LimitReached
                THEN /\ conversation' = appended
                     /\ api_request' = NoRequest
                     /\ notice' = "warning: free chat limit reached"
                     /\ UNCHANGED <<crisis_mode, chats_used, wallet_credits>>
                ELSE LET bot_response == openrouter_chat_api(RequestMessages(appended), net)
                     IN  /\ conversation' =
                               Append(appended, Message("assistant", bot_response.content))
                         /\ api_request' = bot_response.request
                         /\ notice' = bot_response.notice
                         /\ chats_used' = chats_used + 1
                         /\ wallet_credits' = DebitCredit(chats_used + 1, wallet_credits)
                         /\ UNCHANGED crisis_mode
    /\ UNCHANGED <<logged_in, username, topic, topic_welcome_shown, api_key, topups>>

\* variant: the top-up adds two credits
AddCreditTwice(credits) == credits + 2

\* variant: the top-up has the wrong sign
AddCreditNegated(credits) == credits - 1

\* add_credit()
AddCredit(credits) == credits + 1

\* chat_screen(): the "Watch ad to unlock 1 chat" button
WatchAd ==
    /\ OnChatScreen
    /\ ~CrisisGate
    /\ ExhaustedGate
    /\ topups < MaxTopUps
    /\ wallet_credits' = AddCredit(wallet_credits)
    /\ topups' = topups + 1
    /\ event' = Click("Watch ad to unlock 1 chat", <<>>)
    /\ notice' = "success: 1 chat credit added"
    /\ api_request' = NoRequest
    /\ UNCHANGED <<logged_in, username, topic, conversation, chats_used,
                   crisis_mode, topic_welcome_shown, api_key>>

\* chat_screen(): the Logout button of the no-credits branch
Logout ==
    /\ OnChatScreen
    /\ ~CrisisGate
    /\ ExhaustedGate
    /\ reset_session
    /\ event' = Click("Logout", <<>>)
    /\ api_request' = NoRequest
    /\ notice' = NoNotice
    /\ UNCHANGED api_key

\* chat_screen(): the "End Session and Logout" button of the crisis branch
EndSession ==
    /\ OnChatScreen
    /\ CrisisGate
    /\ reset_session
    /\ event' = Click("End Session and Logout", <<>>)
    /\ api_request' = NoRequest
    /\ notice' = NoNotice
    /\ UNCHANGED api_key

Next ==
    \/ \E u \in UsernameInputs : Login(u)
    \/ \E t \in TopicSet, net \in NetOutcomes : SelectTopic(t, net)
    \/ \E user_input \in MessageInputs, net \in NetOutcomes : Send(user_input, net)
    \/ WatchAd
    \/ Logout
    \/ EndSession

Spec == Init /\ [][Next]_vars

\* chat_screen(): the Send button for the first message of a conversation,
\* with any of the generated texts in the message box
MatcherSend ==
    \E text \in MatcherTexts, net \in NetOutcomes :
        /\ Len(conversation) = Len(TopicConversation(<<>>))
        /\ Send(text, net)

MatcherNext ==
    \/ \E u \in UsernameInputs : Login(u)
    \/ \E t \in TopicSet, net \in NetOutcomes : SelectTopic(t, net)
    \/ MatcherSend
    \/ EndSession

\* the session up to its first message, over the generated texts
SpecMatcher == Init /\ [][MatcherNext]_vars

----------------------------------------------------------------------------
(* Properties *)

Last(seq) == seq[Len(seq)]

\* the step appended a user message and then an assistant reply
Answered ==
    /\ event'.button = "Send"
    /\ Len(conversation') = Len(conversation) + 2
    /\ Last(conversation').role = "assistant"

\* the step handled a Send click with a non-blank message
NonBlankSend == event'.button = "Send" /\ Strip(event'.text) # <<>>

\* the step is a session termination and leaves a fresh, logged-out session
Terminated ==
    /\ event'.button \in {"End Session and Logout", "Logout"}
    /\ FreshSession'

\* C1: a non-blank message with a crisis term, sent from the Chatting screen,
\* is appended as a user entry, sets crisis_mode, and is not forwarded to the
\* chat-completion endpoint: no request, no assistant entry.
C1_CrisisMessageNotForwarded ==
    [][(NonBlankSend /\ contains_crisis_keywords(event'.text))
        => /\ conversation' =
                Append(conversation, Message("user", Strip(event'.text)))
           /\ crisis_mode'
           /\ api_request' = NoRequest
           /\ chats_used' = chats_used]_vars

C1_Witness ==
    /\ event.button = "Send"
    /\ contains_crisis_keywords(event.text)
    /\ crisis_mode
    /\ Last(conversation) = Message("user", Strip(event.text))
    /\ api_request = NoRequest

\* C2: crisis_mode is sticky: a step from a state with crisis_mode true
\* leaves it true unless the step is a session termination.
C2_CrisisModeSticky ==
    [][(crisis_mode /\ ~crisis_mode') => Terminated]_vars

C2_Witness ==
    /\ crisis_mode
    /\ Screen = "CrisisMode"
    /\ topic \in TopicSet

\* C3: while crisis_mode is true the only step the session takes is the
\* End Session click, which issues no request and ends in LoggedOut.
C3_CrisisGatesChat ==
    [][crisis_mode
        => /\ event'.button = "End Session and Logout"
           /\ api_request' = NoRequest
           /\ Screen' = "LoggedOut"
           /\ FreshSession']_vars

C3_Witness ==
    /\ event.button = "End Session and Logout"
    /\ Screen = "LoggedOut"
    /\ ~crisis_mode

\* can_chat() of the credit ledger
CanChat == chats_used < FREE_CHAT_LIMIT \/ wallet_credits > 0

\* some message can be sent from the current state and is answered
SendAnswered ==
    \E user_input \in MessageInputs, net \in NetOutcomes :
        /\ Send(user_input, net)
        /\ Len(conversation') = Len(conversation) + 2

\* C4: on the chat screen outside crisis mode, a message can be sent and
\* answered exactly when can_chat() holds, and the Exhausted screen is shown
\* exactly when the balance is 0 and chats_used >= FREE_CHAT_LIMIT.
C4_EligibilityIsCanChat ==
    (OnChatScreen /\ ~crisis_mode)
        => /\ (ENABLED SendAnswered) <=> CanChat
           /\ (Screen = "Exhausted")
                <=> (wallet_credits = 0 /\ chats_used >= FREE_CHAT_LIMIT)

C4_Witness ==
    /\ Screen = "Exhausted"
    /\ ~CanChat
    /\ event.button = "Send"

\* C5: the credit balance and the usage counter are never negative.
C5_NonNegativeLedger == wallet_credits >= 0 /\ chats_used >= 0

C5_Witness ==
    /\ wallet_credits = 0
    /\ chats_used > FREE_CHAT_LIMIT
    /\ topups > 0

\* C6: an answered send adds 1 to chats_used and takes 1 credit (floored at
\* 0) exactly when the new chats_used exceeds FREE_CHAT_LIMIT; no other step
\* lowers the balance.
C6_RecordChat ==
    [][/\ Answered
          => /\ chats_used' = chats_used + 1
             /\ wallet_credits' =
                  IF chats_used' > FREE_CHAT_LIMIT
                  THEN Max(0, wallet_credits - 1)
                  ELSE wallet_credits
       /\ (wallet_credits' < wallet_credits)
          => (Answered /\ chats_used' > FREE_CHAT_LIMIT)]_vars

C6_Witness ==
    /\ event.button = "Send"
    /\ chats_used = FREE_CHAT_LIMIT + 1
    /\ wallet_credits = FREE_CHAT_LIMIT - 1

\* C7: a topic click sets the topic, installs exactly the system prompt
\* followed by an assistant welcome message, and leaves crisis_mode false.
C7_TopicSelectionResets ==
    [][event'.button = "Topic"
        => /\ topic' \in TopicSet
           /\ event'.text = <<topic'>>
           /\ Len(conversation') = 2
           /\ conversation'[1] = Message("system", SYSTEM_PROMPT)
           /\ conversation'[2].role = "assistant"
           /\ ~crisis_mode']_vars

C7_Witness ==
    /\ event.button = "Topic"
    /\ topic = "Anxiety"
    /\ Len(conversation) = 2

\* the last run reported a chat-client failure
CallFailed == notice \in {"error: no api key", "error: api"}

\* C8: when the chat-client call of a topic selection fails, the stored
\* welcome message is the static generic welcome line.
C8_WelcomeFallsBackToStatic ==
    (event.button = "Topic" /\ CallFailed)
        => conversation[2] = Message("assistant", StaticWelcome)

\* the step handled a Send whose POST raised
FailedSend == event'.button = "Send" /\ notice' = "error: api"

\* what C9 says of a failed send, apart from the screen it ends on
FailedSendRecorded ==
    /\ conversation' =
         conversation \o <<Message("user", Strip(event'.text)),
                           Message("assistant", ApiErrorText)>>
    /\ chats_used' = chats_used + 1
    /\ wallet_credits' =
         IF chats_used' > FREE_CHAT_LIMIT
         THEN Max(0, wallet_credits - 1)
         ELSE wallet_credits
    /\ logged_in' /\ topic' = topic /\ ~crisis_mode'

\* C9 as stated: a failed send appends the fixed fallback reply, is recorded
\* by the ledger, and control returns to the Chatting screen.
C9_FailedSendReturnsToChatting ==
    [][FailedSend => (FailedSendRecorded /\ Screen' = "Chatting")]_vars

\* C9 as amended: a failed send appends the fixed fallback reply, is recorded
\* by the ledger, and control returns to the Chatting screen, or to the
\* Exhausted screen when the send used the last credit.
C9_FailedSendContinues ==
    [][FailedSend
        => /\ FailedSendRecorded
           /\ Screen' = IF wallet_credits' = 0 THEN "Exhausted" ELSE "Chatting"]_vars

C9_Witness ==
    /\ event.button = "Send"
    /\ notice = "error: api"
    /\ Last(conversation) = Message("assistant", ApiErrorText)
    /\ Screen = "Chatting"

\* C10: a send made while no API credential is configured is not processed
\* as a chat turn: no assistant entry is appended, and chats_used and the
\* balance keep their values.
C10_NoKeySendNotProcessed ==
    [][(NonBlankSend /\ ~api_key)
        => /\ chats_used' = chats_used
           /\ wallet_credits' = wallet_credits
           /\ Last(conversation').role # "assistant"]_vars

\* a message can be submitted from the current state and is blocked with the
\* free-limit warning: appended, unanswered, nothing posted, ledger untouched
BlockedSend ==
    \E user_input \in MessageInputs, net \in NetOutcomes :
        /\ Send(user_input, net)
        /\ notice' = "warning: free chat limit reached"
        /\ conversation' = Append(conversation, Message("user", Strip(user_input)))
        /\ api_request' = NoRequest
        /\ chats_used' = chats_used
        /\ wallet_credits' = wallet_credits
        /\ Screen' = "Chatting"

\* C11 as stated: when can_chat() is false on the chat screen, a submitted
\* message is blocked with a warning: it stays appended and unanswered, no
\* request is made, the ledger is unchanged and the session stays in Chatting.
C11_BlockedSendWhenCannotChat ==
    (OnChatScreen /\ ~crisis_mode /\ ~CanChat) => ENABLED BlockedSend

\* C11 as amended: when can_chat() is false on the chat screen no message
\* can be submitted: the only steps are the top-up and the logout, nothing is
\* posted, and the free-limit warning is never issued.
C11_NoSendWhenCannotChat ==
    [][/\ (OnChatScreen /\ ~crisis_mode /\ ~CanChat)
          => /\ event'.button \in {"Watch ad to unlock 1 chat", "Logout"}
             /\ api_request' = NoRequest
             /\ chats_used' \in {chats_used, 0}
       /\ notice' # "warning: free chat limit reached"]_vars

C11_Witness ==
    /\ event.button = "Watch ad to unlock 1 chat"
    /\ wallet_credits = 1
    /\ chats_used = 2 * FREE_CHAT_LIMIT

\* C12: a login with a blank or whitespace-only username leaves every
\* session field unchanged and the session logged out; a send with an empty
\* or whitespace-only message leaves the conversation, the ledger and
\* crisis_mode unchanged and posts nothing.
C12_ValidationFailuresChangeNothing ==
    [][/\ (event'.button = "Login" /\ Strip(event'.text) = <<>>)
          => (UNCHANGED session /\ Screen' = "LoggedOut")
       /\ (event'.button = "Send" /\ Strip(event'.text) = <<>>)
          => /\ UNCHANGED <<conversation, chats_used, wallet_credits, crisis_mode>>
             /\ api_request' = NoRequest]_vars

C12_Witness ==
    /\ event = Click("Send", <<" ", " ">>)
    /\ Len(conversation) = 2
    /\ chats_used = 0

\* C13: from Exhausted the top-up raises the balance from 0 to 1 and
\* re-enables sending; the next answered send brings the balance back to 0
\* and the session back to Exhausted.
C13_OneCreditOneChat ==
    [][/\ (Screen = "Exhausted" /\ event'.button = "Watch ad to unlock 1 chat")
          => /\ wallet_credits = 0
             /\ wallet_credits' = 1
             /\ CanChat'
             /\ Screen' = "Chatting"
       /\ (Screen = "Chatting" /\ topups > 0 /\ Answered)
          => /\ wallet_credits' = 0
             /\ Screen' = "Exhausted"]_vars

C13_Witness ==
    /\ topups = 1
    /\ event.button = "Send"
    /\ Screen = "Exhausted"
    /\ chats_used = 2 * FREE_CHAT_LIMIT + 1

\* C14: after End Session or Logout the session is logged out and every
\* field has the value of a fresh session, the usage counters included.
C14_TerminationWipesSession ==
    [][event'.button \in {"End Session and Logout", "Logout"}
        => /\ Screen' = "LoggedOut"
           /\ logged_in' = FALSE
           /\ username' = <<>>
           /\ topic' = None
           /\ conversation' = <<>>
           /\ crisis_mode' = FALSE
           /\ chats_used' = 0
           /\ wallet_credits' = FREE_CHAT_LIMIT]_vars

C14_Witness ==
    /\ event.button = "Logout"
    /\ ~logged_in
    /\ chats_used = 0
    /\ wallet_credits = FREE_CHAT_LIMIT

\* C15: whenever a topic is set the conversation is non-empty and starts
\* with the system prompt.
C15_SystemPromptFirst ==
    topic # None
        => /\ Len(conversation) >= 1
           /\ conversation[1] = Message("system", SYSTEM_PROMPT)

C15_Witness ==
    /\ topic # None
    /\ Len(conversation) > 2
    /\ conversation[1] = Message("system", SYSTEM_PROMPT)

IsPrefix(a, b) == Len(a) <= Len(b) /\ SubSeq(b, 1, Len(a)) = a

\* C16: from a topic selection to the next session reset every step keeps
\* the topic and leaves the previous conversation as a prefix of the new one.
C16_AppendOnlyWithinTopic ==
    [][(topic # None /\ event'.button \notin {"End Session and Logout", "Logout"})
        => /\ topic' = topic
           /\ IsPrefix(conversation, conversation')]_vars

C16_Witness ==
    /\ topic # None
    /\ Len(conversation) = 4
    /\ event.button = "Send"

\* C18: an answered send posts the whole conversation as it is at that
\* moment: the system prompt first, every earlier entry in order, and the
\* message just submitted last.
C18_FullConversationSubmitted ==
    [][(Answered /\ api_key)
        => /\ api_request' =
                Append(conversation, Message("user", Strip(event'.text)))
           /\ api_request' = SubSeq(conversation', 1, Len(conversation') - 1)
           /\ api_request'[1] = Message("system", SYSTEM_PROMPT)]_vars

C18_Witness ==
    /\ event.button = "Send"
    /\ Len(api_request) = 5
    /\ Last(api_request).role = "user"
    /\ Len(conversation) = 6

\* C19: with a topic set, the conversation has 2 + 2 * chats_used entries
\* plus one if crisis_mode; after the first two the roles alternate user,
\* assistant; it ends with an unanswered user message iff crisis_mode.
C19_TranscriptShape ==
    topic # None
        => /\ Len(conversation) =
                2 + 2 * chats_used + (IF crisis_mode THEN 1 ELSE 0)
           /\ \A i \in 3..Len(conversation) :
                conversation[i].role = IF i % 2 = 1 THEN "user" ELSE "assistant"
           /\ (Last(conversation).role = "user") <=> crisis_mode

C19_Witness ==
    /\ crisis_mode
    /\ chats_used = 2
    /\ Len(conversation) = 7

\* C20: wallet_credits = FREE_CHAT_LIMIT + top-ups since the last reset
\* - max(0, chats_used - FREE_CHAT_LIMIT); so the balance is 0 only with
\* chats_used >= 2 * FREE_CHAT_LIMIT, and without a top-up the session is
\* blocked after exactly 2 * FREE_CHAT_LIMIT answered chats.
C20_LedgerAccounting ==
    /\ wallet_credits =
         FREE_CHAT_LIMIT + topups - Max(0, chats_used - FREE_CHAT_LIMIT)
    /\ (wallet_credits = 0) => (chats_used >= 2 * FREE_CHAT_LIMIT)
    /\ (topups = 0 /\ OnChatScreen /\ ~crisis_mode)
         => ((Screen = "Exhausted") <=> (chats_used = 2 * FREE_CHAT_LIMIT))
    /\ (topups = 0) => (chats_used <= 2 * FREE_CHAT_LIMIT)

C20_Witness ==
    /\ topups = 0
    /\ chats_used = 2 * FREE_CHAT_LIMIT
    /\ Screen = "Exhausted"

\* the two characters are the same letter, `c` in either case and `k` as written
SameIgnoringCase(c, k) ==
    \/ c = k
    \/ \E n \in 1..Len(UpperChars) : UpperChars[n] = c /\ LowerChars[n] = k

\* some crisis term occurs in the text at some offset, letter case ignored
HasCrisisTerm(text) ==
    \E n \in 1..Len(CRISIS_KEYWORDS) :
        \E off \in 0..Len(text) :
            /\ off + Len(CRISIS_KEYWORDS[n]) <= Len(text)
            /\ \A j \in 1..Len(CRISIS_KEYWORDS[n]) :
                 SameIgnoringCase(text[off + j], CRISIS_KEYWORDS[n][j])

\* the text with the case of every letter swapped
SwapCase(text) ==
    [i \in 1..Len(text) |->
        IF \E n \in 1..Len(UpperChars) : UpperChars[n] = text[i]
        THEN LowerChars[CHOOSE n \in 1..Len(UpperChars) : UpperChars[n] = text[i]]
        ELSE IF \E n \in 1..Len(LowerChars) : LowerChars[n] = text[i]
        THEN UpperChars[CHOOSE n \in 1..Len(LowerChars) : LowerChars[n] = text[i]]
        ELSE text[i]]

\* C17: contains_crisis_keywords(text) is true iff a crisis term occurs in
\* the text as a substring, letter case ignored; it is false for the empty
\* string, its value does not depend on the case of the input, and a
\* non-blank message sets crisis_mode exactly when it is true.
C17_MatcherIsCaseInsensitiveSubstring ==
    event.button = "Send"
        => /\ contains_crisis_keywords(event.text) <=> HasCrisisTerm(event.text)
           /\ contains_crisis_keywords(SwapCase(event.text))
                <=> contains_crisis_keywords(event.text)
           /\ (event.text = <<>>) => ~contains_crisis_keywords(event.text)
           /\ (Strip(event.text) # <<>>)
                => (crisis_mode <=> HasCrisisTerm(event.text))

C17_Witness ==
    /\ event = Click("Send", <<"D", "i", "E">>)
    /\ contains_crisis_keywords(event.text)
    /\ crisis_mode

====
